---------------------------- MODULE Spec2Model ----------------------------
(* Model of slipsentry.py: the byte/word utilities, the dynamic-field      *)
(* reader and the Uniswap V2 / V3 calldata decoders.                       *)
(*                                                                         *)
(* A byte string is a sequence of integers 0..255 (Python index i is TLA+  *)
(* index i+1).  A Python str is a sequence of one-character strings.  A    *)
(* call either returns or raises; both outcomes are records with the same  *)
(* fields: status ("ok" / "raise"), exc (exception class), msg (message),  *)
(* fields (dict as a record) and path (list of token strings).             *)
EXTENDS Integers, Sequences, FiniteSets, TLC

VARIABLES pc, fn, payload, sel, off, total, ret
vars == <<pc, fn, payload, sel, off, total, ret>>

Min(a, b) == IF a < b THEN a ELSE b
Max(a, b) == IF a > b THEN a ELSE b

(* ---------------------------- bounds ----------------------------------- *)
MaxHops      == 2      \* path elements in a generated calldata item
MaxTotal     == 70     \* largest total handed to is_offset_like
MaxValue     == 100    \* largest |v| handed to is_offset_like
MaxBuf       == 40     \* longest buffer handed to read_dyn directly
MaxDynLen    == 9      \* largest length word in a read_dyn buffer
MaxPathBytes == 70     \* longest byte string handed to parse_v3_path_bytes

(* ------------------------- known selectors ----------------------------- *)
SEL_V2_SWAP_EXACT_TOKENS_FOR_TOKENS == "38ed1739"
SEL_V2_SWAP_TOKENS_FOR_EXACT_TOKENS == "8803dbee"
SEL_V2_SWAP_EXACT_ETH_FOR_TOKENS    == "7ff36ab5"
SEL_V2_SWAP_EXACT_TOKENS_FOR_ETH    == "18cbafe5"
SEL_V2_SWAP_ETH_FOR_EXACT_TOKENS    == "fb3bdb41"
SEL_V3_EXACT_INPUT                  == "04e45aaf"
SEL_V3_EXACT_OUTPUT                 == "09b81346"

(* --------------------------- outcomes ---------------------------------- *)
NoFields == [none |-> TRUE]
Ok(f, p) == [status |-> "ok", exc |-> "", msg |-> "", fields |-> f, path |-> p]
Raise(e, m) ==
  [status |-> "raise", exc |-> e, msg |-> m, fields |-> NoFields, path |-> <<>>]
ClickException(m) == Raise("ClickException", m)
IndexError == Raise("IndexError", "list index out of range")
NoResult ==
  [status |-> "none", exc |-> "", msg |-> "", fields |-> NoFields, path |-> <<>>]

(* --------------------------- utilities --------------------------------- *)
\* Python b[i:j] for 0 <= i <= j: the slice is clamped to the end of b.
Slice(b, i, j) == SubSeq(b, i + 1, Min(j, Len(b)))

\* Python b[-20:]: the last 20 bytes, or all of b when it is shorter.
Last20(b) == SubSeq(b, Max(1, Len(b) - 19), Len(b))

HexDigits ==
  <<"0","1","2","3","4","5","6","7","8","9","a","b","c","d","e","f">>

\* bytes.hex(): two lowercase hex digits per byte.
RECURSIVE Hex(_)
Hex(b) ==
  IF Len(b) = 0 THEN <<>>
  ELSE <<HexDigits[(b[1] \div 16) + 1], HexDigits[(b[1] % 16) + 1]>>
         \o Hex(Tail(b))

\* int.from_bytes(b, "big") if b else 0
RECURSIVE u256(_)
u256(b) ==
  IF Len(b) = 0 THEN 0
  ELSE u256(SubSeq(b, 1, Len(b) - 1)) * 256 + b[Len(b)]

\* [payload[i:i+32] for i in range(0, len(payload), 32)]
words(p) ==
  [k \in 1..((Len(p) + 31) \div 32) |-> Slice(p, 32 * (k - 1), 32 * k)]

is_offset_like_unaligned(v, tot) ==
  (v % 32 \in {0, 1}) /\ (0 <= v) /\ (v <= Max(0, tot - 32))
is_offset_like(v, tot) ==
  (v % 32 = 0) /\ (0 <= v) /\ (v <= Max(0, tot - 32))

read_dyn_lax(p, o) ==
  IF o + 32 > Len(p)
    THEN ClickException("Dynamic head points out of bounds")
    ELSE LET ln == u256(Slice(p, o, o + 32)) IN
         IF o + 32 + ln > Len(p) + 1
           THEN ClickException("Dynamic body truncated")
           ELSE [status |-> "ok", ln |-> ln,
                 body |-> Slice(p, o + 32, o + 32 + ln)]
read_dyn(p, o) ==
  IF o + 32 > Len(p)
    THEN ClickException("Dynamic head points out of bounds")
    ELSE LET ln == u256(Slice(p, o, o + 32)) IN
         IF o + 32 + ln > Len(p)
           THEN ClickException("Dynamic body truncated")
           ELSE [status |-> "ok", ln |-> ln,
                 body |-> Slice(p, o + 32, o + 32 + ln)]

to_hex_addr(word32) == <<"0", "x">> \o Hex(Last20(word32))

(* ---------------------------- decoders --------------------------------- *)
decode_path_at_arg_stride(H, w, tot, arg_index) ==
  IF arg_index + 1 > Len(w) THEN IndexError
  ELSE LET o == u256(w[arg_index + 1]) IN
    IF ~ is_offset_like(o, tot) THEN ClickException("Bad offset for path[]")
    ELSE LET d == read_dyn(H, o) IN
      IF d.status # "ok" THEN d
      ELSE IF d.ln = 0 THEN [status |-> "ok", toks |-> <<>>]
      ELSE IF o + 32 + d.ln * 32 > Len(H)
        THEN ClickException("path[] truncated")
        ELSE [status |-> "ok",
              toks |-> [i \in 1..d.ln |->
                         to_hex_addr(Slice(H, o + (i - 1) * 32,
                                              o + i * 32))]]
\* decode_v2's local function; w[arg_index] raises IndexError when absent.
decode_path_at_arg(H, w, tot, arg_index) ==
  IF arg_index + 1 > Len(w) THEN IndexError
  ELSE LET o == u256(w[arg_index + 1]) IN
    IF ~ is_offset_like(o, tot) THEN ClickException("Bad offset for path[]")
    ELSE LET d == read_dyn(H, o) IN
      IF d.status # "ok" THEN d
      ELSE IF d.ln = 0 THEN [status |-> "ok", toks |-> <<>>]
      ELSE IF o + 32 + d.ln * 32 > Len(H)
        THEN ClickException("path[] truncated")
        ELSE [status |-> "ok",
              toks |-> [i \in 1..d.ln |->
                         to_hex_addr(Slice(H, o + 32 + (i - 1) * 32,
                                              o + 32 + i * 32))]]

TokenLayoutSels ==
  {SEL_V2_SWAP_EXACT_TOKENS_FOR_TOKENS, SEL_V2_SWAP_TOKENS_FOR_EXACT_TOKENS,
   SEL_V2_SWAP_EXACT_TOKENS_FOR_ETH}
EthLayoutSels ==
  {SEL_V2_SWAP_EXACT_ETH_FOR_TOKENS, SEL_V2_SWAP_ETH_FOR_EXACT_TOKENS}

decode_v2_eager(p, s) ==
  LET H == p
      w == words(H)
      tot == Len(H)
  IN
  IF Len(w) < 1 THEN IndexError
  ELSE IF s \in TokenLayoutSels THEN
    IF Len(w) < 2 THEN IndexError
    ELSE LET r == decode_path_at_arg(H, w, tot, 2) IN
      IF r.status # "ok" THEN r
      ELSE IF Len(w) < 5 THEN IndexError
      ELSE Ok([amount0 |-> u256(w[1]), amount1 |-> u256(w[2]),
               to |-> to_hex_addr(w[4]), deadline |-> u256(w[5])], r.toks)
  ELSE IF s \in EthLayoutSels THEN
    LET r == decode_path_at_arg(H, w, tot, 1) IN
      IF r.status # "ok" THEN r
      ELSE IF Len(w) < 4 THEN IndexError
      ELSE Ok([amount0 |-> u256(w[1]),
               to |-> to_hex_addr(w[3]), deadline |-> u256(w[4])], r.toks)
  ELSE ClickException("Unknown V2 swap layout")
decode_v2(p, s) ==
  LET H == p
      w == words(H)
      tot == Len(H)
  IN
  IF s \in TokenLayoutSels THEN
    IF Len(w) < 2 THEN IndexError                     \* w[0], w[1]
    ELSE LET r == decode_path_at_arg(H, w, tot, 2) IN
      IF r.status # "ok" THEN r
      ELSE IF Len(w) < 5 THEN IndexError              \* w[3], w[4]
      ELSE Ok([amount0 |-> u256(w[1]), amount1 |-> u256(w[2]),
               to |-> to_hex_addr(w[4]), deadline |-> u256(w[5])], r.toks)
  ELSE IF s \in EthLayoutSels THEN
    IF Len(w) < 1 THEN IndexError                     \* w[0]
    ELSE LET r == decode_path_at_arg(H, w, tot, 1) IN
      IF r.status # "ok" THEN r
      ELSE IF Len(w) < 4 THEN IndexError              \* w[2], w[3]
      ELSE Ok([amount0 |-> u256(w[1]),
               to |-> to_hex_addr(w[3]), deadline |-> u256(w[4])], r.toks)
  ELSE ClickException("Unknown V2 swap layout")

RECURSIVE v3_loop(_, _, _)
v3_loop(b, i, toks) ==
  IF i < Len(b) /\ ~ (i + 3 + 20 > Len(b))
    THEN v3_loop(b, i + 23,
                 Append(toks, <<"0", "x">> \o Hex(Slice(b, i + 3, i + 23))))
    ELSE toks

parse_v3_path_bytes_nofee(b) ==
  IF Len(b) < 20 THEN <<>>
  ELSE [j \in 1..(1 + (Len(b) - 20) \div 20) |->
          <<"0", "x">> \o Hex(Slice(b, 20 * (j - 1), 20 * j))]
parse_v3_path_bytes(b) ==
  IF Len(b) < 20 THEN <<>>
  ELSE v3_loop(b, 20, << <<"0", "x">> \o Hex(Slice(b, 0, 20)) >>)

decode_v3_exact_labels(p, s) ==
  LET H == p
      w == words(H)
      tot == Len(H)
  IN
  IF Len(w) < 5 THEN ClickException("V3 struct too short")
  ELSE LET path_off == u256(w[1]) IN
    IF ~ is_offset_like(path_off, tot)
      THEN ClickException("Bad offset for path (V3)")
    ELSE LET d == read_dyn(H, path_off) IN
      IF d.status # "ok" THEN d
      ELSE Ok([recipient |-> to_hex_addr(w[2]), deadline |-> u256(w[3]),
               amountIn |-> u256(w[4]), amountOutMin |-> u256(w[5])],
              parse_v3_path_bytes(d.body))
decode_v3_exact(p, s) ==
  LET H == p
      w == words(H)
      tot == Len(H)
  IN
  IF Len(w) < 5 THEN ClickException("V3 struct too short")
  ELSE LET path_off == u256(w[1]) IN
    IF ~ is_offset_like(path_off, tot)
      THEN ClickException("Bad offset for path (V3)")
    ELSE LET d == read_dyn(H, path_off) IN
      IF d.status # "ok" THEN d
      ELSE Ok(IF s = SEL_V3_EXACT_INPUT
                THEN [recipient |-> to_hex_addr(w[2]),
                      deadline |-> u256(w[3]),
                      amountIn |-> u256(w[4]),
                      amountOutMin |-> u256(w[5])]
                ELSE [recipient |-> to_hex_addr(w[2]),
                      deadline |-> u256(w[3]),
                      amountOut |-> u256(w[4]),
                      amountInMax |-> u256(w[5])],
              parse_v3_path_bytes(d.body))

(* ------------------------ calldata items ------------------------------- *)
\* The inputs: ABI-encoded calldata-after-selector buffers.  Every value   *)
\* placed in a 32-byte word is below 2^23, so that every length, offset    *)
\* and amount the decoders read stays inside the checker's integers.       *)
EncodeWord(v) ==
  [i \in 1..32 |-> IF i = 32 THEN v % 256
                   ELSE IF i = 31 THEN (v \div 256) % 256
                   ELSE IF i = 30 THEN (v \div 65536) % 256
                   ELSE 0]

Buffer(ws, L) ==
  [i \in 1..L |-> EncodeWord(ws[((i - 1) \div 32) + 1])[((i - 1) % 32) + 1]]

DataWord(i) == 65536 * i + 256 * (i + 16) + (i + 32)

V3Sels == {SEL_V3_EXACT_INPUT, SEL_V3_EXACT_OUTPUT}
Selectors == TokenLayoutSels \cup EthLayoutSels \cup V3Sels \cup {"deadbeef"}

PathLen(n) == IF n = 0 THEN 0 ELSE 23 * n - 3

\* Head and tail words of a well-formed call of the selector's function
\* (an unrecognised selector gets the five-argument V2 shape).
Template(s, n, amt) ==
  IF s \in EthLayoutSels
    THEN <<amt, 128, 773615, 6640625, n>> \o [i \in 1..n |-> DataWord(i)]
  ELSE IF s \in V3Sels
    THEN <<160, 773615, 6640625, amt, 900, PathLen(n)>>
           \o [i \in 1..((PathLen(n) + 31) \div 32) |-> DataWord(i)]
  ELSE <<amt, 900, 160, 773615, 6640625, n>> \o [i \in 1..n |-> DataWord(i)]

FullLen(s, n) ==
  IF s \in V3Sels THEN 192 + PathLen(n) ELSE 32 * Len(Template(s, n, 0))

\* One word of the item replaced (j = -1: none), then cut to L bytes.
OverrideVals == {0, 1, 32, 33, 160, 192, 4096}
Overrides == {<<-1, 0>>} \cup ((0..5) \X OverrideVals)
Override(ws, ov) ==
  IF ov[1] >= 0 /\ ov[1] < Len(ws) THEN [ws EXCEPT ![ov[1] + 1] = ov[2]]
  ELSE ws
CutLengths(s, n) ==
  {L \in 0..(32 * Len(Template(s, n, 0))) : L % 32 \in {0, 1, 31}}
    \cup {FullLen(s, n)}

\* read_dyn's own inputs: a length word at byte offset o, content after it.
DynBuffer(L, o, ln) ==
  [i \in 1..L |-> IF i <= o THEN ((i - 1) % 5) + 1
                  ELSE IF i <= o + 32 THEN EncodeWord(ln)[i - o]
                  ELSE ((i - 1) % 7) + 1]

\* parse_v3_path_bytes's own inputs: arbitrary bytes.
PathBytes(L, seed) == [i \in 1..L |-> (i * seed * 37 + 11) % 256]

(* ----------------------------- states ---------------------------------- *)
InitDecode ==
  /\ pc = "start" /\ fn = "" /\ off = 0 /\ total = 0 /\ ret = NoResult
  /\ sel \in Selectors
  /\ \E n \in 0..MaxHops, amt \in {0, 1000}, ov \in Overrides :
       \E L \in CutLengths(sel, n) :
         payload = Buffer(Override(Template(sel, n, amt), ov), L)

InitOffset ==
  /\ pc = "start" /\ fn = "" /\ ret = NoResult
  /\ payload = <<>> /\ sel = ""
  /\ off \in (-MaxValue)..MaxValue
  /\ total \in 0..MaxTotal

InitReadDyn ==
  /\ pc = "start" /\ fn = "" /\ ret = NoResult
  /\ sel = "" /\ total = 0
  /\ off \in 0..(MaxBuf + 1)
  /\ \E L \in 0..MaxBuf, ln \in 0..MaxDynLen : payload = DynBuffer(L, off, ln)

InitPath ==
  /\ pc = "start" /\ fn = "" /\ ret = NoResult
  /\ sel = "" /\ total = 0 /\ off = 0
  /\ \E L \in 0..MaxPathBytes, seed \in 1..3 : payload = PathBytes(L, seed)

(* ----------------------------- calls ----------------------------------- *)
CallDecodeV2 ==
  /\ pc = "start"
  /\ pc' = "done" /\ fn' = "decode_v2"
  /\ ret' = decode_v2(payload, sel)
  /\ UNCHANGED <<payload, sel, off, total>>

CallDecodeV3 ==
  /\ pc = "start"
  /\ pc' = "done" /\ fn' = "decode_v3_exact"
  /\ ret' = decode_v3_exact(payload, sel)
  /\ UNCHANGED <<payload, sel, off, total>>

CallIsOffsetLike ==
  /\ pc = "start"
  /\ pc' = "done" /\ fn' = "is_offset_like"
  /\ ret' = [status |-> "ok", value |-> is_offset_like(off, total)]
  /\ UNCHANGED <<payload, sel, off, total>>

CallReadDyn ==
  /\ pc = "start"
  /\ pc' = "done" /\ fn' = "read_dyn"
  /\ ret' = read_dyn(payload, off)
  /\ UNCHANGED <<payload, sel, off, total>>

CallParseV3Path ==
  /\ pc = "start"
  /\ pc' = "done" /\ fn' = "parse_v3_path_bytes"
  /\ ret' = Ok(NoFields, parse_v3_path_bytes(payload))
  /\ UNCHANGED <<payload, sel, off, total>>

NextDecode == CallDecodeV2 \/ CallDecodeV3
NextOffset == CallIsOffsetLike
NextReadDyn == CallReadDyn
NextPath == CallParseV3Path

Spec == InitDecode /\ [][NextDecode]_vars
SpecOffset == InitOffset /\ [][NextOffset]_vars
SpecReadDyn == InitReadDyn /\ [][NextReadDyn]_vars
SpecPath == InitPath /\ [][NextPath]_vars

(* ------------------- reference reading of a buffer --------------------- *)
\* Byte r places from the end of b (0 = last), zero when b is shorter.
ByteFromEnd(b, r) == IF r < Len(b) THEN b[Len(b) - r] ELSE 0
\* Big-endian value of b by place weights (the generated words keep every
\* byte above the low four at zero).
RefUint(b) ==
  ByteFromEnd(b, 0) + 256 * ByteFromEnd(b, 1) + 65536 * ByteFromEnd(b, 2)
    + 16777216 * ByteFromEnd(b, 3)
\* The k-th (0-based) full 32-byte word of p, and the chunk that may be short.
RefWord(p, k) == SubSeq(p, 32 * k + 1, 32 * k + 32)
RefChunk(p, k) == SubSeq(p, 32 * k + 1, Min(32 * k + 32, Len(p)))
FullWords(p) == Len(p) \div 32

HexVal(c) == CHOOSE n \in 0..15 : HexDigits[n + 1] = c
UnHex(str) ==
  [i \in 1..(Len(str) \div 2) |-> 16 * HexVal(str[2 * i - 1]) + HexVal(str[2 * i])]
\* str is the 0x-prefixed lowercase hex text of exactly the 20 bytes b20.
IsAddrOf(str, b20) ==
  /\ Len(str) = 42 /\ str[1] = "0" /\ str[2] = "x"
  /\ \A i \in 3..42 : \E n \in 0..15 : HexDigits[n + 1] = str[i]
  /\ UnHex(SubSeq(str, 3, 42)) = b20

KnownV2Sels == TokenLayoutSels \cup EthLayoutSels
HeadWords(s) == IF s \in EthLayoutSels THEN 4 ELSE 5
PathArg(s) == IF s \in EthLayoutSels THEN 1 ELSE IF s \in V3Sels THEN 0 ELSE 2
IsClick(r, m) == r.status = "raise" /\ r.exc = "ClickException" /\ r.msg = m

\* The spec's error kinds, by the message the code raises them with.
TruncatedHead          == "Truncated head"
DynamicHeadOutOfBounds == "Dynamic head points out of bounds"
DynamicBodyTruncated   == "Dynamic body truncated"
PathTruncated          == "path[] truncated"
V3StructTooShort       == "V3 struct too short"
UnknownV2Layout        == "Unknown V2 swap layout"

DoneV2 == pc = "done" /\ fn = "decode_v2"
DoneV3 == pc = "done" /\ fn = "decode_v3_exact"

(* ------------------------------ C1 ------------------------------------- *)
\* C1: for a known V2 selector and a buffer with fewer full head words than
\* the layout indexes (5 token variants, 4 ETH variants), decode_v2 fails
\* with the structural decode error TruncatedHead: it neither returns nor
\* fails in another way.
C1_TruncatedHead ==
  (DoneV2 /\ sel \in KnownV2Sels /\ FullWords(payload) < HeadWords(sel))
    => IsClick(ret, TruncatedHead)

(* ------------------------------ C2 ------------------------------------- *)
\* C2: decode_v3_exact succeeds only on buffers of at least 160 bytes, and
\* fails with V3StructTooShort on every buffer with fewer than 5 full words.
C2_V3StructTooShort ==
  (DoneV3 /\ Len(payload) < 160) => IsClick(ret, V3StructTooShort)

(* ------------------------------ C3 ------------------------------------- *)
\* C3: whenever decode_v2 (known selector) or decode_v3_exact returns, the
\* path offset held by the designated head word is a multiple of 32 within
\* [0, len(buffer) - 32]; any other offset value makes the decode fail.
PathOffsetOf(p, s) == RefUint(RefChunk(p, PathArg(s)))
C3_OffsetValidated ==
  (pc = "done" /\ ret.status = "ok"
     /\ ((fn = "decode_v2" /\ sel \in KnownV2Sels) \/ fn = "decode_v3_exact"))
    => LET s == IF fn = "decode_v3_exact" THEN SEL_V3_EXACT_INPUT ELSE sel
           o == PathOffsetOf(payload, s)
       IN o % 32 = 0 /\ 0 <= o /\ o <= Len(payload) - 32
C3_Witness ==
  /\ DoneV2 /\ sel \in EthLayoutSels /\ ret.status = "ok"
  /\ PathOffsetOf(payload, sel) = 128 /\ Len(ret.path) = 2

(* ------------------------------ C4 ------------------------------------- *)
\* C4: is_offset_like(value, total) is true iff value % 32 = 0 and
\* 0 <= value <= total - 32, for every total >= 0 (also total < 32).
C4_OffsetLikeIff ==
  (pc = "done" /\ fn = "is_offset_like")
    => (ret.value <=> (off % 32 = 0 /\ 0 <= off /\ off <= total - 32))

(* ------------------------------ C5 ------------------------------------- *)
\* C5: read_dyn(buffer, offset) fails with DynamicHeadOutOfBounds iff
\* offset + 32 > len; otherwise, with length the value of the word at
\* offset, fails with DynamicBodyTruncated iff offset + 32 + length > len,
\* and else returns (length, the length bytes after the length word).
C5_ReadDyn ==
  (pc = "done" /\ fn = "read_dyn")
    => IF off + 32 > Len(payload)
         THEN IsClick(ret, DynamicHeadOutOfBounds)
         ELSE LET ln == RefUint(SubSeq(payload, off + 1, off + 32)) IN
              IF off + 32 + ln > Len(payload)
                THEN IsClick(ret, DynamicBodyTruncated)
                ELSE /\ ret.status = "ok"
                     /\ ret.ln = ln
                     /\ Len(ret.body) = ln
                     /\ \A i \in 1..ln : ret.body[i] = payload[off + 32 + i]
C5_Witness ==
  /\ pc = "done" /\ fn = "read_dyn" /\ ret.status = "ok"
  /\ ret.ln > 0 /\ off > 0 /\ off + 32 + ret.ln = Len(payload)

(* ------------------------------ C6 ------------------------------------- *)
\* C6: known V2 selector, complete head, offset-like path offset whose
\* length word N lies in the buffer: when the N * 32 bytes after the length
\* word run past the end, decode_v2 fails with PathTruncated, for every N.
C6_PathTruncated ==
  (/\ DoneV2 /\ sel \in KnownV2Sels
   /\ FullWords(payload) >= HeadWords(sel)
   /\ LET o == PathOffsetOf(payload, sel) IN
        /\ o % 32 = 0 /\ o + 32 <= Len(payload)
        /\ o + 32 + 32 * RefUint(SubSeq(payload, o + 1, o + 32)) > Len(payload))
    => IsClick(ret, PathTruncated)

(* ------------------------------ C7 ------------------------------------- *)
\* C7: on a structurally valid buffer (complete head, valid path offset,
\* N address words inside the buffer) decode_v2 returns the reference
\* layout: amount0/amount1/to/deadline from words 0/1/3/4 with the path at
\* word 2 (token variants), amount0/to/deadline from words 0/2/3 with the
\* path at word 1 and no amount1 (ETH variants); the path has exactly N
\* tokens, the i-th the last 20 bytes of the word at off + 32 + 32*i.
ValidV2(p, s) ==
  /\ s \in KnownV2Sels
  /\ FullWords(p) >= HeadWords(s)
  /\ LET o == PathOffsetOf(p, s) IN
       /\ o % 32 = 0 /\ o + 32 <= Len(p)
       /\ o + 32 + 32 * RefUint(SubSeq(p, o + 1, o + 32)) <= Len(p)
C7_V2Layout ==
  (DoneV2 /\ ValidV2(payload, sel))
    => LET o == PathOffsetOf(payload, sel)
           N == RefUint(SubSeq(payload, o + 1, o + 32))
           f == ret.fields
       IN
       /\ ret.status = "ok"
       /\ IF sel \in TokenLayoutSels
            THEN /\ DOMAIN f = {"amount0", "amount1", "to", "deadline"}
                 /\ f.amount0 = RefUint(RefWord(payload, 0))
                 /\ f.amount1 = RefUint(RefWord(payload, 1))
                 /\ IsAddrOf(f.to, SubSeq(RefWord(payload, 3), 13, 32))
                 /\ f.deadline = RefUint(RefWord(payload, 4))
            ELSE /\ DOMAIN f = {"amount0", "to", "deadline"}
                 /\ f.amount0 = RefUint(RefWord(payload, 0))
                 /\ IsAddrOf(f.to, SubSeq(RefWord(payload, 2), 13, 32))
                 /\ f.deadline = RefUint(RefWord(payload, 3))
       /\ Len(ret.path) = N
       /\ \A i \in 1..N :
            IsAddrOf(ret.path[i],
                     SubSeq(payload, o + 32 * i + 13, o + 32 * i + 32))
C7_Witness ==
  /\ DoneV2 /\ ValidV2(payload, sel) /\ sel \in EthLayoutSels
  /\ Len(ret.path) = 2 /\ ret.path[1] # ret.path[2]
  /\ ret.fields.amount0 = 1000

(* ------------------------------ C8 ------------------------------------- *)
\* C8: parse_v3_path_bytes(b) never raises and returns the empty list when
\* len(b) < 20, else 1 + floor((len(b) - 20) / 23) tokens, token j being
\* the 20 bytes b[23*j .. 23*j + 20); trailing bytes are dropped.
C8_V3Path ==
  (pc = "done" /\ fn = "parse_v3_path_bytes")
    => LET k == IF Len(payload) < 20 THEN 0
                ELSE 1 + (Len(payload) - 20) \div 23
       IN /\ ret.status = "ok"
          /\ Len(ret.path) = k
          /\ \A j \in 1..k :
               IsAddrOf(ret.path[j],
                        SubSeq(payload, 23 * (j - 1) + 1, 23 * (j - 1) + 20))
C8_Witness ==
  /\ pc = "done" /\ fn = "parse_v3_path_bytes"
  /\ Len(payload) = 68 /\ Len(ret.path) = 3
  /\ ret.path[1] # ret.path[2] /\ ret.path[2] # ret.path[3]

(* ------------------------------ C9 ------------------------------------- *)
\* C9: decode_v2 with a selector outside the five known V2 selectors fails
\* with UnknownV2Layout on every buffer, the empty and truncated included.
C9_UnknownV2Layout ==
  (DoneV2 /\ sel \notin KnownV2Sels) => IsClick(ret, UnknownV2Layout)
C9_Witness ==
  DoneV2 /\ sel = "deadbeef" /\ Len(payload) = 0
    /\ IsClick(ret, UnknownV2Layout)

(* ------------------------------ C10 ------------------------------------ *)
\* C10: when decode_v3_exact returns, recipient = address(word1), deadline
\* = uint(word2), and words 3/4 are labelled amountIn/amountOutMin under
\* exactInput and amountOut/amountInMax under exactOutput, never both; the
\* path is the packed-path parse of the dynamic bytes at the word0 offset.
C10_V3Fields ==
  (DoneV3 /\ sel \in V3Sels /\ ret.status = "ok")
    => LET f == ret.fields
           o == RefUint(RefWord(payload, 0))
           ln == RefUint(SubSeq(payload, o + 1, o + 32))
           k == IF ln < 20 THEN 0 ELSE 1 + (ln - 20) \div 23
       IN
       /\ IsAddrOf(f.recipient, SubSeq(RefWord(payload, 1), 13, 32))
       /\ f.deadline = RefUint(RefWord(payload, 2))
       /\ IF sel = SEL_V3_EXACT_INPUT
            THEN /\ DOMAIN f =
                      {"recipient", "deadline", "amountIn", "amountOutMin"}
                 /\ f.amountIn = RefUint(RefWord(payload, 3))
                 /\ f.amountOutMin = RefUint(RefChunk(payload, 4))
            ELSE /\ DOMAIN f =
                      {"recipient", "deadline", "amountOut", "amountInMax"}
                 /\ f.amountOut = RefUint(RefWord(payload, 3))
                 /\ f.amountInMax = RefUint(RefChunk(payload, 4))
       /\ Len(ret.path) = k
       /\ \A j \in 1..k :
            IsAddrOf(ret.path[j],
                     SubSeq(payload, o + 32 + 23 * (j - 1) + 1,
                                     o + 32 + 23 * (j - 1) + 20))
C10_Witness ==
  /\ DoneV3 /\ sel = SEL_V3_EXACT_OUTPUT /\ ret.status = "ok"
  /\ Len(payload) >= 160
  /\ Len(ret.path) = 2 /\ ret.path[1] # ret.path[2]
  /\ ret.fields.amountOut = 1000 /\ ret.fields.amountInMax = 900

=============================================================================
